---- MODULE Spec2Model ----
(***************************************************************************)
(* Model of telegram_post: the Telegram update-polling client              *)
(* (telegram_client.py, TelegramClient.fetch_new_messages and its webhook  *)
(* recovery), the pipeline that drives it (main.py, run_poll_once and      *)
(* run_poll_loop, poll_once and poll_loop, _process_messages with          *)
(* adapt_post and publish_post), the cursor store (main.py,                *)
(* read_last_update_id and write_last_update_id) and the configuration     *)
(* (config.py, Settings.from_env).                                         *)
(*                                                                         *)
(* Encoding of Python values:                                              *)
(*   Optional[T]   None is <<>>, a present value v is <<v>>                *)
(*   str           a sequence of one-character strings                     *)
(*   JSON id       a record [t, v, s]: absent, an integer v or a string s  *)
(***************************************************************************)
EXTENDS Integers, Sequences, FiniteSets, TLC

(***************************************************************************)
(* Bounds of the model and constants of the program.                       *)
(***************************************************************************)

\* Largest update_id the remote side assigns in a response of SpecParse/SpecFetch.
MaxUpdateId == 2

\* Longest list of updates in one getUpdates response of SpecParse/SpecFetch.
MaxUpdates == 2

\* Largest update_id the remote side ever assigns in the pipeline (Spec).
MaxServerId == 3

\* Most single-pass runs that follow one another on one state file (Spec).
MaxRuns == 2

\* Largest absolute value of the integers written to the cursor store (SpecStore).
MaxStoredInt == 12

\* TelegramClient(max_attempts=3), DeepSeekClient(max_attempts=3): attempts
\* of one retry round.
MaxAttempts == 3

\* source_user_id the client is configured with (the value the tests use).
SourceUserId == 123

\* some other sender.
OtherUserId == SourceUserId + 1

(***************************************************************************)
(* Optional values and Python truthiness.                                  *)
(***************************************************************************)

None == <<>>

Some(v) == <<v>>

\* `x or d` for an Optional[int]: None and 0 are both falsy.
OrInt(x, d) == IF x = None \/ x[1] = 0 THEN d ELSE x[1]

\* `a or b` for two Optional[str]: None and "" are both falsy.
OrStr(a, b) == IF a = None \/ a[1] = <<>> THEN b ELSE a

Max(a, b) == IF a >= b THEN a ELSE b

(***************************************************************************)
(* Strings: str.strip() and int(str).                                      *)
(***************************************************************************)

IsSpace(c) == c = " "

RECURSIVE lstrip(_)
lstrip(s) == IF s # <<>> /\ IsSpace(Head(s)) THEN lstrip(Tail(s)) ELSE s

RECURSIVE rstrip(_)
rstrip(s) ==
    IF s # <<>> /\ IsSpace(s[Len(s)]) THEN rstrip(SubSeq(s, 1, Len(s) - 1)) ELSE s

\* str.strip(): leading and trailing whitespace removed.
strip(s) == rstrip(lstrip(s))

DigitChars == <<"0", "1", "2", "3", "4", "5", "6", "7", "8", "9">>

IsDigit(c) == \E d \in 1..10 : DigitChars[d] = c

DigitValue(c) == (CHOOSE d \in 1..10 : DigitChars[d] = c) - 1

\* value of a non-empty run of decimal digits, most significant first.
RECURSIVE DigitsValue(_, _)
DigitsValue(s, acc) ==
    IF s = <<>> THEN acc ELSE DigitsValue(Tail(s), 10 * acc + DigitValue(Head(s)))

\* int(s) for a str: surrounding whitespace ignored, an optional sign, then
\* one or more digits; anything else raises ValueError (None here).
ParseInt(s) ==
    LET t == strip(s)
        signed == t # <<>> /\ Head(t) \in {"-", "+"}
        digits == IF signed THEN Tail(t) ELSE t
    IN  IF digits = <<>> \/ \E i \in 1..Len(digits) : ~IsDigit(digits[i])
        THEN None
        ELSE IF signed /\ Head(t) = "-"
             THEN Some(0 - DigitsValue(digits, 0))
             ELSE Some(DigitsValue(digits, 0))

\* str(n) for n >= 0: the decimal digits of n.
RECURSIVE Digits(_)
Digits(n) ==
    IF n < 10 THEN <<DigitChars[n + 1]>>
    ELSE Digits(n \div 10) \o <<DigitChars[(n % 10) + 1]>>

(***************************************************************************)
(* JSON identifiers found in an update ("id" of sender_chat, from, chat).  *)
(***************************************************************************)

NoId == [t |-> "none", v |-> 0, s |-> <<>>]

IntId(n) == [t |-> "int", v |-> n, s |-> <<>>]

StrId(str) == [t |-> "str", v |-> 0, s |-> str]

\* int(sender_id_raw): an integer is itself, a string is parsed (ValueError
\* is None here).
ToInt(raw) == IF raw.t = "int" THEN Some(raw.v) ELSE ParseInt(raw.s)

(***************************************************************************)
(* Updates as getUpdates returns them, and the messages fetch builds.      *)
(***************************************************************************)

\* what `{}.get(...)` yields for every key: the block of an update that has
\* neither "channel_post" nor "message".
EmptyBlock ==
    [message_id |-> None, sender_chat |-> NoId, from |-> NoId, chat |-> NoId,
     text |-> None, caption |-> None]

\* mutant: the block of an edited_channel_post is read too.
MessageBlockEdited(update) == update.body

\* update.get("channel_post") or update.get("message") or {}
MessageBlock(update) ==
    IF update.kind \in {"channel_post", "message"} THEN update.body ELSE EmptyBlock

\* int(update.get("update_id", 0))
UpdateIdOf(update) == IF update.update_id = None THEN 0 ELSE update.update_id[1]

\* int(message_block.get("message_id", 0))
MessageIdOf(block) == IF block.message_id = None THEN 0 ELSE block.message_id[1]

\* mutant: the first candidate that is there decides, parsing or not.
RECURSIVE FirstSenderIdPresent(_)
FirstSenderIdPresent(candidates) ==
    IF candidates = <<>> THEN None
    ELSE IF Head(candidates).t = "none" THEN FirstSenderIdPresent(Tail(candidates))
    ELSE ToInt(Head(candidates))

\* the loop over sender_id_raw_candidates: a missing candidate is skipped, one
\* that int() rejects is skipped, the first one that parses ends the loop.
RECURSIVE FirstSenderId(_)
FirstSenderId(candidates) ==
    IF candidates = <<>> THEN None
    ELSE IF Head(candidates).t = "none" THEN FirstSenderId(Tail(candidates))
    ELSE IF ToInt(Head(candidates)) = None THEN FirstSenderId(Tail(candidates))
    ELSE ToInt(Head(candidates))

SenderId(block) == FirstSenderId(<<block.sender_chat, block.from, block.chat>>)

\* mutant: every update that carries some sender identity is accepted.
SenderAcceptedAny(sender_id, source_user_id) == sender_id # None

\* not (sender_id is None or sender_id != self.source_user_id)
SenderAccepted(sender_id, source_user_id) ==
    sender_id # None /\ sender_id[1] = source_user_id

\* message_block.get("text") or message_block.get("caption")
TextOf(block) == OrStr(block.text, block.caption)

\* mutant: only a missing or empty text is rejected, a blank one is kept.
TextAcceptedNonEmpty(text) == text # None /\ text[1] # <<>>

\* not (not text or not text.strip())
TextAccepted(text) == text # None /\ text[1] # <<>> /\ strip(text[1]) # <<>>

\* mutant: the cursor follows the last update_id seen.
NextLastUpdateLast(new_last_update, update_id) == Some(update_id)

\* max(new_last_update or update_id, update_id)
NextLastUpdate(new_last_update, update_id) ==
    Some(Max(OrInt(new_last_update, update_id), update_id))

TelegramMessage(update_id, message_id, text) ==
    [update_id |-> update_id, message_id |-> message_id, text |-> text]

\* mutant: only an update that yields a message advances the cursor.
RECURSIVE ParseLoopKeptOnly(_, _, _, _)
ParseLoopKeptOnly(rest, messages, new_last_update, source_user_id) ==
    IF rest = <<>>
    THEN [messages |-> messages, new_last_update |-> new_last_update]
    ELSE LET update == Head(rest)
             update_id == UpdateIdOf(update)
             message_block == MessageBlock(update)
             text == TextOf(message_block)
         IN  IF ~SenderAccepted(SenderId(message_block), source_user_id)
             THEN ParseLoopKeptOnly(Tail(rest), messages, new_last_update,
                                    source_user_id)
             ELSE IF ~TextAccepted(text)
             THEN ParseLoopKeptOnly(Tail(rest), messages, new_last_update,
                                    source_user_id)
             ELSE ParseLoopKeptOnly(
                    Tail(rest),
                    Append(messages,
                           TelegramMessage(update_id, MessageIdOf(message_block),
                                           strip(text[1]))),
                    NextLastUpdate(new_last_update, update_id), source_user_id)

\* the `for update in updates` loop of fetch_new_messages.
RECURSIVE ParseLoop(_, _, _, _)
ParseLoop(rest, messages, new_last_update, source_user_id) ==
    IF rest = <<>>
    THEN [messages |-> messages, new_last_update |-> new_last_update]
    ELSE LET update == Head(rest)
             update_id == UpdateIdOf(update)
             advanced == NextLastUpdate(new_last_update, update_id)
             message_block == MessageBlock(update)
             text == TextOf(message_block)
         IN  IF ~SenderAccepted(SenderId(message_block), source_user_id)
             THEN ParseLoop(Tail(rest), messages, advanced, source_user_id)
             ELSE IF ~TextAccepted(text)
             THEN ParseLoop(Tail(rest), messages, advanced, source_user_id)
             ELSE ParseLoop(
                    Tail(rest),
                    Append(messages,
                           TelegramMessage(update_id, MessageIdOf(message_block),
                                           strip(text[1]))),
                    advanced, source_user_id)

\* mutant: the loop starts from no cursor instead of the one passed in.
ParseUpdatesFromNone(result, cursor, source_user_id) ==
    ParseLoop(result, <<>>, None, source_user_id)

\* the part of fetch_new_messages after a successful response: messages and
\* new_last_update for data["result"] = result.
ParseUpdates(result, cursor, source_user_id) ==
    ParseLoop(result, <<>>, cursor, source_user_id)

(***************************************************************************)
(* What the remote side may answer: the updates the model draws from.      *)
(***************************************************************************)

Block(sender_chat, from, chat, text, caption) ==
    [message_id |-> None, sender_chat |-> sender_chat, from |-> from,
     chat |-> chat, text |-> text, caption |-> caption]

\* "-100" followed by the digits of n: a channel id as Telegram writes it.
ChannelPrefixed(n) == <<"-", "1", "0", "0">> \o Digits(n)

SourcePost == Block(IntId(SourceUserId), NoId, NoId, Some(<<" ", "a", " ">>), None)

\* the sender varies, the text is good.
SenderShapes ==
    { [kind |-> "channel_post", body |-> SourcePost],
      [kind |-> "channel_post",
       body |-> Block(NoId, NoId, StrId(Digits(SourceUserId)), Some(<<"a">>), None)],
      [kind |-> "channel_post",
       body |-> Block(StrId(ChannelPrefixed(SourceUserId)), NoId, NoId,
                      Some(<<"a">>), None)],
      [kind |-> "message",
       body |-> Block(IntId(OtherUserId), IntId(SourceUserId), NoId,
                      Some(<<"a">>), None)],
      [kind |-> "message",
       body |-> Block(StrId(<<"x">>), IntId(SourceUserId), NoId,
                      Some(<<"a">>), None)],
      [kind |-> "message",
       body |-> Block(NoId, StrId(<<"x">>), NoId, Some(<<"a">>), None)],
      [kind |-> "edited_channel_post", body |-> SourcePost] }

\* the sender is the source, text and caption vary.
TextShapes ==
    { [kind |-> "channel_post",
       body |-> Block(IntId(SourceUserId), NoId, NoId, None, Some(<<"b">>))],
      [kind |-> "channel_post",
       body |-> Block(IntId(SourceUserId), NoId, NoId, Some(<<>>), Some(<<"b">>))],
      [kind |-> "channel_post",
       body |-> Block(IntId(SourceUserId), NoId, NoId, Some(<<" ">>), Some(<<"b">>))],
      [kind |-> "channel_post",
       body |-> Block(IntId(SourceUserId), NoId, NoId, None, Some(<<" ">>))] }

\* for the protocol and the pipeline: one relevant and one irrelevant post.
PlainShapes ==
    { [kind |-> "channel_post", body |-> SourcePost],
      [kind |-> "message",
       body |-> Block(IntId(OtherUserId), NoId, NoId, Some(<<"a">>), None)] }

\* update_id as the response carries it: missing (read as 0), or one of the
\* positive numbers the Bot API assigns.
UpdateIds == {None} \cup {Some(n) : n \in 1..MaxUpdateId}

UpdatesOf(shapes) ==
    { [update_id |-> id, kind |-> sh.kind, body |-> sh.body] :
        id \in UpdateIds, sh \in shapes }

\* the i-th update of a response carries message_id 100 + i.
Numbered(seq) ==
    [i \in 1..Len(seq) |-> [seq[i] EXCEPT !.body.message_id = Some(100 + i)]]

\* every response of at most n updates drawn from U.
ResponsesOf(U, n) == { Numbered(seq) : seq \in UNION { [1..k -> U] : k \in 0..n } }

RichResponses == ResponsesOf(UpdatesOf(SenderShapes \cup TextShapes), MaxUpdates)

PlainResponses == ResponsesOf(UpdatesOf(PlainShapes), MaxUpdates)

\* the cursors a fetch is called with: absent, or any integer a state file
\* may hold (a negative one, 0, an update_id).
Cursors == {None} \cup {Some(n) : n \in (0 - 1)..MaxUpdateId}

(***************************************************************************)
(* The cursor store: read_last_update_id and write_last_update_id over a   *)
(* file holding JSON text.                                                 *)
(*                                                                         *)
(* A file is None (no such file) or Some(text).  JSON text is a sequence   *)
(* of characters; the string literal "last_update_id" is written as the    *)
(* one symbol "K", any other string literal as "S", true as "t", null as   *)
(* "n".                                                                    *)
(***************************************************************************)

NoFile == None

\* str(n) of an integer, as json.dumps writes it.
IntText(n) == IF n < 0 THEN <<"-">> \o Digits(0 - n) ELSE Digits(n)

\* JSON's integer: an optional minus, then digits without a leading zero.
IsJsonInt(t) ==
    LET digits == IF t # <<>> /\ Head(t) = "-" THEN Tail(t) ELSE t
    IN  /\ digits # <<>>
        /\ \A i \in 1..Len(digits) : IsDigit(digits[i])
        /\ Len(digits) > 1 => digits[1] # "0"

JsonIntValue(t) ==
    IF Head(t) = "-" THEN 0 - DigitsValue(Tail(t), 0) ELSE DigitsValue(t, 0)

\* JSON's number with a fraction: integer "." digits.
IsJsonFloat(t) ==
    \E p \in 2..(Len(t) - 1) :
        /\ t[p] = "."
        /\ IsJsonInt(SubSeq(t, 1, p - 1))
        /\ \A i \in (p + 1)..Len(t) : IsDigit(t[i])

\* a JSON value as json.loads builds it: its Python type, and the number
\* when it is an int (True is the int 1).
JsonValue(kind, v) == [kind |-> kind, v |-> v]

JsonNothing == JsonValue("nothing", 0)

\* a value without members, or "invalid" when json.loads would raise
\* JSONDecodeError.
JsonItem(t) ==
    IF t = <<>> THEN JsonValue("invalid", 0)
    ELSE IF IsJsonInt(t) THEN JsonValue("int", JsonIntValue(t))
    ELSE IF IsJsonFloat(t) THEN JsonValue("float", 0)
    ELSE IF t = <<"S">> \/ t = <<"K">> THEN JsonValue("str", 0)
    ELSE IF t = <<"t">> THEN JsonValue("bool", 1)
    ELSE IF t = <<"n">> THEN JsonValue("NoneType", 0)
    ELSE IF t = <<"[", "]">> THEN JsonValue("list", 0)
    ELSE IF t = <<"{", "}">> THEN JsonValue("dict", 0)
    ELSE JsonValue("invalid", 0)

\* the document json.loads returns: its type, its number when it is an int,
\* and for a dict what .get("last_update_id") finds in it (JsonNothing when
\* the key is not there).  Lists hold at most one item, dicts one key.
JsonDocument(kind, v, field) == [kind |-> kind, v |-> v, field |-> field]

JsonInvalid == JsonDocument("invalid", 0, JsonNothing)

JsonLoads(s) ==
    LET t == strip(s)
        bracketed(open, close) ==
            Len(t) >= 2 /\ Head(t) = open /\ t[Len(t)] = close
        inner == strip(SubSeq(t, 2, Len(t) - 1))
        afterKey == lstrip(Tail(inner))
        member == JsonItem(strip(Tail(afterKey)))
    IN  IF bracketed("[", "]")
        THEN IF inner = <<>> \/ JsonItem(inner).kind # "invalid"
             THEN JsonDocument("list", 0, JsonNothing)
             ELSE JsonInvalid
        ELSE IF bracketed("{", "}")
        THEN IF inner = <<>> THEN JsonDocument("dict", 0, JsonNothing)
             ELSE IF /\ Head(inner) \in {"K", "S"}
                     /\ afterKey # <<>>
                     /\ Head(afterKey) = ":"
                     /\ member.kind # "invalid"
             THEN JsonDocument("dict", 0,
                               IF Head(inner) = "K" THEN member ELSE JsonNothing)
             ELSE JsonInvalid
        ELSE LET item == JsonItem(t)
             IN  JsonDocument(item.kind, item.v, JsonNothing)

\* json.dumps({"last_update_id": n}).
JsonDumps(n) == <<"{", "K", ":", " ">> \o IntText(n) \o <<"}">>

\* the outcome of a call: the exception it raised ("" when it returned) and
\* the value it returned.
Outcome(raised, value) == [raised |-> raised, value |-> value]

\* read_last_update_id(state_file): None for a missing file, an empty file
\* and text that is no JSON; otherwise payload.get("last_update_id"), which
\* only a dict has, is returned when isinstance(..., int) holds, and bool is
\* a subclass of int.  The file system works: no OSError.
read_last_update_id(file) ==
    IF file = NoFile THEN Outcome("", None)
    ELSE LET raw == strip(file[1])
             payload == JsonLoads(raw)
         IN  IF raw = <<>> THEN Outcome("", None)
             ELSE IF payload.kind = "invalid" THEN Outcome("", None)
             ELSE IF payload.kind # "dict" THEN Outcome("AttributeError", None)
             ELSE IF payload.field.kind \in {"int", "bool"}
                  THEN Outcome("", Some(payload.field.v))
                  ELSE Outcome("", None)

\* mutant: the number is written without the object around it.
write_last_update_id_bare(file, n) == Some(IntText(n))

\* write_last_update_id(state_file, last_update_id): the file is created or
\* replaced by the JSON object.  The file system works: no OSError.
write_last_update_id(file, n) == Some(JsonDumps(n))

\* text of a file by its parts: what stands around the value, then the value.
FileText(wrap, value) ==
    CASE wrap = "bare" -> value
      [] wrap = "padded" -> <<" ">> \o value \o <<" ">>
      [] wrap = "list" -> <<"[">> \o value \o <<"]">>
      [] wrap = "field" -> <<"{", "K", ":">> \o value \o <<"}">>
      [] wrap = "spaced field" -> <<"{", "K", ":", " ">> \o value \o <<" ", "}">>
      [] wrap = "other field" -> <<"{", "S", ":">> \o value \o <<"}">>
      [] wrap = "open" -> <<"{", "K", ":">> \o value

\* the values the files of the model hold: nothing, integers (one with a
\* leading zero, which is no JSON), a fraction, a string, true, null, an
\* empty list and an empty object.
FileValues ==
    {<<>>, <<"0">>, <<"7">>, <<"-", "7">>, <<"4", "2">>, <<"0", "7">>,
     <<"1", ".", "5">>, <<"S">>, <<"t">>, <<"n">>, <<"[", "]">>, <<"{", "}">>}

\* every state of the cursor file the store is read in.
StoreFiles ==
    {NoFile} \cup
    { Some(FileText(wrap, value)) :
        wrap \in {"bare", "padded", "list", "field", "spaced field",
                  "other field", "open"},
        value \in FileValues }

(***************************************************************************)
(* Settings.from_env: the required settings and the environment variables  *)
(* each is read from.  An environment maps every name to None (not set)    *)
(* or Some(value).                                                         *)
(***************************************************************************)

\* required = {field: names}, in the order the dict is written.
Required ==
    << [field |-> "deepseek_api_key", names |-> <<"DEEPSEEK_APPI">>],
       [field |-> "telegram_bot_username", names |-> <<"USERNAMETELERGRAMBOT">>],
       [field |-> "telegram_bot_token", names |-> <<"TELEGRAMKEY">>],
       [field |-> "telegram_target_channel",
        names |-> <<"TELEGRAMKANAL_ID_S_MINYSOM_V_NA4ALE", "TELEGRAMKANAL">>],
       [field |-> "telegram_source_user_id",
        names |-> <<"TG_ISTO4NIK_ID", "TGUSERID">>] >>

EnvNames == UNION { {r.names[i] : i \in 1..Len(r.names)} : r \in {Required[j] : j \in 1..Len(Required)} }

NamesOf(field) == (CHOOSE r \in {Required[j] : j \in 1..Len(Required)} : r.field = field).names

\* `if value:` for what env_mapping.get(name) returns: None and "" are falsy.
Truthy(value) == value # None /\ value[1] # <<>>

\* mutant: the first name that is set wins, empty or not.
RECURSIVE FirstValueSet(_, _)
FirstValueSet(names, environment) ==
    IF names = <<>> THEN None
    ELSE IF environment[Head(names)] # None THEN environment[Head(names)]
    ELSE FirstValueSet(Tail(names), environment)

\* for name in names: the value of the first name whose value is truthy,
\* None when the loop ends without break.
RECURSIVE FirstValue(_, _)
FirstValue(names, environment) ==
    IF names = <<>> THEN None
    ELSE IF Truthy(environment[Head(names)]) THEN environment[Head(names)]
    ELSE FirstValue(Tail(names), environment)

\* " или ".join(names), with the hint appended when there are several names.
Formatted(names) == [names |-> names, hint |-> Len(names) > 1]

\* the formatted strings begin with the first name of their setting, and
\* these compare as str does in this order.
Alphabetical ==
    <<"DEEPSEEK_APPI", "TELEGRAMKANAL_ID_S_MINYSOM_V_NA4ALE", "TELEGRAMKEY",
      "TG_ISTO4NIK_ID", "USERNAMETELERGRAMBOT">>

FormattedBefore(a, b) ==
    LET rank(f) == CHOOSE i \in 1..Len(Alphabetical) : Alphabetical[i] = f.names[1]
    IN  rank(a) < rank(b)

\* mutant: only the first unresolved setting is reported.
MissingFirstOnly(environment) ==
    LET unresolved(r) == FirstValue(r.names, environment) = None
        all == SelectSeq(Required, unresolved)
    IN  IF all = <<>> THEN <<>> ELSE <<Formatted(all[1].names)>>

\* the list `missing` after the loop over required.
Missing(environment) ==
    LET unresolved(r) == FirstValue(r.names, environment) = None
        all == SelectSeq(Required, unresolved)
    IN  [i \in 1..Len(all) |-> Formatted(all[i].names)]

\* what from_env did: the exception it raised ("" when it returned), its
\* message and the settings listed in it, and the Settings it returned.
SettingsOutcome(raised, message, listed, value) ==
    [raised |-> raised, message |-> message, listed |-> listed, value |-> value]

\* Settings.from_env(env).
from_env(environment) ==
    LET resolved == [field \in {Required[j].field : j \in 1..Len(Required)} |->
                        FirstValue(NamesOf(field), environment)]
        missing == Missing(environment)
        source_user_id == ParseInt(resolved["telegram_source_user_id"][1])
    IN  IF missing # <<>>
        THEN SettingsOutcome("SettingsError", "missing variables",
                             SortSeq(missing, FormattedBefore), None)
        ELSE IF source_user_id = None
        THEN SettingsOutcome("SettingsError", "source user id is no integer",
                             <<>>, None)
        ELSE SettingsOutcome("", "", <<>>,
                 Some([deepseek_api_key |-> resolved["deepseek_api_key"][1],
                       telegram_bot_username |-> resolved["telegram_bot_username"][1],
                       telegram_bot_token |-> resolved["telegram_bot_token"][1],
                       telegram_target_channel |-> resolved["telegram_target_channel"][1],
                       telegram_source_user_id |-> source_user_id[1]]))

\* the values one variable takes in the environments of the model: not
\* set, empty, or each of the given strings.
Values(strings) == {None, Some(<<>>)} \cup {Some(str) : str \in strings}

\* every environment of SpecSettings: the single-name variables are unset,
\* empty or set; the new and the legacy name of a setting take different
\* values, the source user id ones digits or something that is no integer.
Envs ==
    { [name \in EnvNames |->
         CASE name = "TELEGRAMKANAL_ID_S_MINYSOM_V_NA4ALE" -> channel[1]
           [] name = "TELEGRAMKANAL" -> channel[2]
           [] name = "TG_ISTO4NIK_ID" -> source[1]
           [] name = "TGUSERID" -> source[2]
           [] OTHER -> single[name]] :
        single \in [{"DEEPSEEK_APPI", "USERNAMETELERGRAMBOT", "TELEGRAMKEY"} ->
                      Values({<<"k">>})],
        channel \in Values({<<"@", "n">>}) \X Values({<<"@", "l">>}),
        source \in Values({<<"4", "5", "6">>, <<"x">>})
                   \X Values({<<"7", "8", "9">>, <<"y">>}) }

\* the environment of the tests (base_env), with both channel names set.
BaseEnv ==
    [name \in EnvNames |->
        CASE name \in {"TG_ISTO4NIK_ID", "TGUSERID"} -> Some(Digits(SourceUserId))
          [] name = "TELEGRAMKANAL_ID_S_MINYSOM_V_NA4ALE" -> Some(<<"@", "n">>)
          [] name = "TELEGRAMKANAL" -> Some(<<"@", "l">>)
          [] OTHER -> Some(<<"k">>)]

(***************************************************************************)
(* State.                                                                  *)
(***************************************************************************)

VARIABLES
    mode,                     \* "fetch": one fetch_new_messages call;
                              \* "once": poll_once; "loop": poll_loop
    pc,                       \* where the run is
    last_update_id,           \* the cursor: fetch's argument, poll_loop's variable
    previous_last_update_id,  \* poll_loop: the cursor the cycle started with
    webhook_conflict_handled, \* fetch: the recovery was done in this call
    attempt,                  \* number of the attempt of the current retry round
    get_requests,             \* getUpdates requests sent in this fetch
    delete_calls,             \* _delete_webhook calls made in this fetch
    delete_requests,          \* deleteWebhook requests sent in this fetch
    trace,                    \* requests of the current client call and
                              \* their answers
    updates,                  \* data["result"] of the successful response
    messages,                 \* fetch's first result
    new_last_update,          \* fetch's second result
    error,                    \* the exception that ended the run, "" if none
    batch,                    \* the list handed to _process_messages
    processed,                \* _process_messages: messages published so far
    published,                \* messages sent to the target channel in this
                              \* cycle, in order
    state_file,               \* the cursor file: NoFile or Some(text)
    runs,                     \* runs started so far
    env,                      \* the environment variables of the process
    settings,                 \* Settings.from_env's result, None before it
    params,                   \* fetch: the query parameters of its requests
    first_cycle               \* no cycle of this process has ended yet

vars ==
    <<mode, pc, last_update_id, previous_last_update_id, webhook_conflict_handled,
      attempt, get_requests, delete_calls, delete_requests, trace, updates,
      messages, new_last_update, error, batch, processed, published,
      state_file, runs, env, settings, params, first_cycle>>

storeVars == <<state_file, runs>>

configVars == <<env, settings>>

\* what a step inside a cycle leaves alone.
frameVars == <<params, first_cycle, storeVars, configVars>>

callVars ==
    <<webhook_conflict_handled, attempt, get_requests, delete_calls,
      delete_requests, trace>>

resultVars == <<updates, messages, new_last_update>>

fetchVars == <<callVars, resultVars>>

pipelineVars == <<batch, processed, published>>

(***************************************************************************)
(* TelegramClient.fetch_new_messages, one action per request it awaits.    *)
(***************************************************************************)

\* params["offset"] = last_update_id + 1, no offset without a cursor.
Offset(cursor) == IF cursor = None THEN None ELSE Some(cursor[1] + 1)

\* params["allowed_updates"]
AllowedUpdates == <<"message", "channel_post", "edited_channel_post">>

\* mutant: the offset is always sent, counted from 0 without a cursor.
ParamsOffsetAlways(cursor) ==
    [timeout |-> 0, allowed_updates |-> AllowedUpdates,
     offset |-> OrInt(cursor, 0) + 1]

\* the dict params of fetch_new_messages(last_update_id): the key "offset"
\* is there only with a cursor.
Params(cursor) ==
    IF cursor = None
    THEN [timeout |-> 0, allowed_updates |-> AllowedUpdates]
    ELSE [timeout |-> 0, allowed_updates |-> AllowedUpdates,
          offset |-> Offset(cursor)[1]]

\* the offset a getUpdates request with these parameters asks for, None
\* when it carries none.
RequestedOffset(query) ==
    IF "offset" \in DOMAIN query THEN Some(query.offset) ELSE None

\* the locals of a fetch_new_messages call as it starts.
FetchEntered ==
    /\ webhook_conflict_handled = FALSE
    /\ attempt = 1
    /\ get_requests = 0
    /\ delete_calls = 0
    /\ delete_requests = 0
    /\ trace = <<>>
    /\ updates = <<>>
    /\ messages = <<>>
    /\ new_last_update = None

NoError == [type |-> "", message |-> ""]

\* raise type(message): the exception leaves the call, and the run with it.
Raise(type, message) ==
    /\ error' = [type |-> type, message |-> message]
    /\ pc' = "raised"

\* self._client.get(url, params=params) was sent and answered.
GetAnswered(answer) ==
    /\ get_requests' = get_requests + 1
    /\ trace' = Append(trace, <<"getUpdates", answer>>)

\* self._client.post(url, json=payload) of _delete_webhook was sent and answered.
DeleteAnswered(answer) ==
    /\ delete_requests' = delete_requests + 1
    /\ trace' = Append(trace, <<"deleteWebhook", answer>>)

\* a getUpdates request answered 200 with {"ok": true, "result": result}:
\* the updates are parsed and the call returns.
GetUpdatesOk(responses) ==
    /\ pc = "get"
    /\ \E result \in responses :
         LET parsed == ParseUpdates(result, last_update_id, SourceUserId)
         IN  /\ updates' = result
             /\ messages' = parsed.messages
             /\ new_last_update' = parsed.new_last_update
    /\ GetAnswered("ok")
    /\ pc' = "returned"
    /\ UNCHANGED <<mode, frameVars, last_update_id, previous_last_update_id,
                   webhook_conflict_handled, attempt, delete_calls,
                   delete_requests, error, pipelineVars>>

\* a getUpdates request answered 200 with "ok" false or missing.
GetUpdatesNotOk ==
    /\ pc = "get"
    /\ GetAnswered("not_ok")
    /\ Raise("TelegramClientError", "getUpdates: not ok")
    /\ UNCHANGED <<mode, frameVars, last_update_id, previous_last_update_id,
                   webhook_conflict_handled, attempt, delete_calls,
                   delete_requests, resultVars, pipelineVars>>

\* a getUpdates request answered 200 with a body that is no JSON:
\* response.json() raises json.JSONDecodeError inside the attempt, which the
\* retry predicate does not name and no handler catches.
GetUpdatesUndecodable ==
    /\ pc = "get"
    /\ GetAnswered("no_json")
    /\ Raise("JSONDecodeError", "getUpdates: response.json()")
    /\ UNCHANGED <<mode, frameVars, last_update_id, previous_last_update_id,
                   webhook_conflict_handled, attempt, delete_calls,
                   delete_requests, resultVars, pipelineVars>>

\* a getUpdates request that raised httpx.HTTPError (a 409, or any other
\* status or transport error) before the last attempt: tenacity tries again.
GetUpdatesRetried ==
    /\ pc = "get"
    /\ attempt < MaxAttempts
    /\ \E answer \in {"409", "error"} : GetAnswered(answer)
    /\ attempt' = attempt + 1
    /\ UNCHANGED <<mode, frameVars, pc, last_update_id, previous_last_update_id,
                   webhook_conflict_handled, delete_calls, delete_requests,
                   resultVars, error, pipelineVars>>

\* mutant: the recovery is started whether or not it was done before.
GetUpdatesConflictUnguarded ==
    /\ pc = "get"
    /\ attempt = MaxAttempts
    /\ delete_calls < MaxAttempts
    /\ GetAnswered("409")
    /\ delete_calls' = delete_calls + 1
    /\ attempt' = 1
    /\ pc' = "delete"
    /\ UNCHANGED <<mode, frameVars, last_update_id, previous_last_update_id,
                   webhook_conflict_handled, delete_requests, resultVars, error,
                   pipelineVars>>

\* the last attempt of a round answered 409 and the recovery was not done
\* yet: _delete_webhook is called.
GetUpdatesConflict ==
    /\ pc = "get"
    /\ attempt = MaxAttempts
    /\ ~webhook_conflict_handled
    /\ GetAnswered("409")
    /\ delete_calls' = delete_calls + 1
    /\ attempt' = 1
    /\ pc' = "delete"
    /\ UNCHANGED <<mode, frameVars, last_update_id, previous_last_update_id,
                   webhook_conflict_handled, delete_requests, resultVars, error,
                   pipelineVars>>

\* mutant: the repeated conflict is swallowed and the call returns nothing new.
GetUpdatesConflictAgainSwallowed ==
    /\ pc = "get"
    /\ attempt = MaxAttempts
    /\ webhook_conflict_handled
    /\ GetAnswered("409")
    /\ pc' = "returned"
    /\ new_last_update' = last_update_id
    /\ UNCHANGED <<mode, frameVars, last_update_id, previous_last_update_id,
                   webhook_conflict_handled, attempt, delete_calls,
                   delete_requests, updates, messages, error, pipelineVars>>

\* the last attempt of a round answered 409 after the recovery was done.
GetUpdatesConflictAgain ==
    /\ pc = "get"
    /\ attempt = MaxAttempts
    /\ webhook_conflict_handled
    /\ GetAnswered("409")
    /\ Raise("TelegramClientError", "getUpdates: webhook conflict not resolved")
    /\ UNCHANGED <<mode, frameVars, last_update_id, previous_last_update_id,
                   webhook_conflict_handled, attempt, delete_calls,
                   delete_requests, resultVars, pipelineVars>>

\* the last attempt of a round raised an httpx.HTTPError that is no 409.
GetUpdatesExhausted ==
    /\ pc = "get"
    /\ attempt = MaxAttempts
    /\ GetAnswered("error")
    /\ Raise("TelegramClientError", "getUpdates: failed")
    /\ UNCHANGED <<mode, frameVars, last_update_id, previous_last_update_id,
                   webhook_conflict_handled, attempt, delete_calls,
                   delete_requests, resultVars, pipelineVars>>

\* mutant: the flag is not set after the recovery.
DeleteWebhookOkFlagForgotten ==
    /\ pc = "delete"
    /\ delete_calls < MaxAttempts
    /\ DeleteAnswered("ok")
    /\ attempt' = 1
    /\ pc' = "get"
    /\ UNCHANGED <<mode, frameVars, last_update_id, previous_last_update_id,
                   webhook_conflict_handled, get_requests, delete_calls,
                   resultVars, error, pipelineVars>>

\* _delete_webhook: the request answered 200 with "ok" true; back in
\* fetch_new_messages the flag is set and the while loop starts a new round.
DeleteWebhookOk ==
    /\ pc = "delete"
    /\ DeleteAnswered("ok")
    /\ webhook_conflict_handled' = TRUE
    /\ attempt' = 1
    /\ pc' = "get"
    /\ UNCHANGED <<mode, frameVars, last_update_id, previous_last_update_id, get_requests,
                   delete_calls, resultVars, error, pipelineVars>>

\* _delete_webhook: the request answered 200 with "ok" false or missing.
DeleteWebhookNotOk ==
    /\ pc = "delete"
    /\ DeleteAnswered("not_ok")
    /\ Raise("TelegramClientError", "deleteWebhook: not ok")
    /\ UNCHANGED <<mode, frameVars, last_update_id, previous_last_update_id,
                   webhook_conflict_handled, attempt, get_requests, delete_calls,
                   resultVars, pipelineVars>>

\* _delete_webhook: the request answered 200 with a body that is no JSON.
DeleteWebhookUndecodable ==
    /\ pc = "delete"
    /\ DeleteAnswered("no_json")
    /\ Raise("JSONDecodeError", "deleteWebhook: response.json()")
    /\ UNCHANGED <<mode, frameVars, last_update_id, previous_last_update_id,
                   webhook_conflict_handled, attempt, get_requests, delete_calls,
                   resultVars, pipelineVars>>

\* _delete_webhook: the request raised httpx.HTTPError before the last attempt.
DeleteWebhookRetried ==
    /\ pc = "delete"
    /\ attempt < MaxAttempts
    /\ DeleteAnswered("error")
    /\ attempt' = attempt + 1
    /\ UNCHANGED <<mode, frameVars, pc, last_update_id, previous_last_update_id,
                   webhook_conflict_handled, get_requests, delete_calls,
                   resultVars, error, pipelineVars>>

\* _delete_webhook: the last attempt raised httpx.HTTPError.
DeleteWebhookExhausted ==
    /\ pc = "delete"
    /\ attempt = MaxAttempts
    /\ DeleteAnswered("error")
    /\ Raise("TelegramClientError", "deleteWebhook: failed")
    /\ UNCHANGED <<mode, frameVars, last_update_id, previous_last_update_id,
                   webhook_conflict_handled, attempt, get_requests, delete_calls,
                   resultVars, pipelineVars>>

\* every way a fetch goes on that is not a successful response.
FetchTrouble ==
    \/ GetUpdatesNotOk
    \/ GetUpdatesUndecodable
    \/ GetUpdatesRetried
    \/ GetUpdatesConflict
    \/ GetUpdatesConflictAgain
    \/ GetUpdatesExhausted
    \/ DeleteWebhookOk
    \/ DeleteWebhookNotOk
    \/ DeleteWebhookUndecodable
    \/ DeleteWebhookRetried
    \/ DeleteWebhookExhausted

(***************************************************************************)
(* SpecParse: one fetch_new_messages call whose first request succeeds,    *)
(* for every cursor and every response of RichResponses.                   *)
(* SpecFetch: one fetch_new_messages call against a remote side that may   *)
(* answer each request in any way.                                         *)
(***************************************************************************)

InitFetch ==
    /\ mode = "fetch"
    /\ pc = "get"
    /\ state_file = NoFile
    /\ runs = 0
    /\ env = BaseEnv
    /\ settings = None
    /\ first_cycle = TRUE
    /\ last_update_id \in Cursors
    /\ params = Params(last_update_id)
    /\ previous_last_update_id = None
    /\ FetchEntered
    /\ error = NoError
    /\ batch = <<>>
    /\ processed = 0
    /\ published = <<>>

NextParse == GetUpdatesOk(RichResponses)

SpecParse == InitFetch /\ [][NextParse]_vars

NextFetch ==
    \/ GetUpdatesOk(PlainResponses)
    \/ FetchTrouble

SpecFetch == InitFetch /\ [][NextFetch]_vars

(***************************************************************************)
(* The pipeline: run_poll_once and run_poll_loop, poll_once and poll_loop  *)
(* around fetch_new_messages and _process_messages, one action per request *)
(* awaited.                                                                *)
(***************************************************************************)

\* what the remote side answers to a getUpdates with this offset: updates
\* with consecutive update_ids from the offset on (from 1 without offset),
\* or replayed from an older update on, each a relevant or an irrelevant
\* post, none beyond MaxServerId.
ServerResponses(offset) ==
    LET requested == IF offset = None THEN 1 ELSE offset[1]
    IN  UNION {
          { [i \in 1..Len(seq) |->
               [update_id |-> Some(first + i - 1), kind |-> seq[i].kind,
                body |-> [seq[i].body EXCEPT !.message_id = Some(100 + first + i - 1)]]] :
            seq \in UNION { [1..k -> PlainShapes] : k \in 0..Max(0, MaxServerId - first + 1) } } :
          first \in 1..Max(1, requested) }

\* mutant: the first two messages are kept.
FirstTwo(list) == SubSeq(list, 1, 2)

\* messages[-2:] of a list longer than two.
LastTwo(list) == SubSeq(list, Len(list) - 1, Len(list))

\* poll_once: if len(messages) > 2: messages = messages[-2:]
OnceBatch(fetched) == IF Len(fetched) > 2 THEN LastTwo(fetched) ELSE fetched

\* mutant: the loop cuts every batch, with or without a cursor.
LoopBatchAlways(previous, fetched) ==
    IF Len(fetched) > 2 THEN LastTwo(fetched) ELSE fetched

\* poll_loop: if previous_last_update_id is None and len(messages) > 2:
\*                messages = messages[-2:]
LoopBatch(previous, fetched) ==
    IF previous = None /\ Len(fetched) > 2 THEN LastTwo(fetched) ELSE fetched

\* a client call has returned: its locals are gone.
CallLeft ==
    /\ webhook_conflict_handled' = FALSE
    /\ attempt' = 1
    /\ get_requests' = 0
    /\ delete_calls' = 0
    /\ delete_requests' = 0
    /\ trace' = <<>>

\* a request of adapt_post or publish_post was sent and answered.
Answered(request, answer) == trace' = Append(trace, <<request, answer>>)

\* a process starts: nothing is left of the one before it but the files.
ProcessStarted ==
    /\ previous_last_update_id' = None
    /\ CallLeft
    /\ updates' = <<>>
    /\ messages' = <<>>
    /\ new_last_update' = None
    /\ batch' = <<>>
    /\ processed' = 0
    /\ published' = <<>>
    /\ first_cycle' = TRUE
    /\ runs' = runs + 1

\* mutant: the run starts without a cursor, whatever the state file holds.
RunPollOnceFresh ==
    /\ mode = "once"
    /\ pc \in {"start", "done", "raised"}
    /\ runs < MaxRuns
    /\ ProcessStarted
    /\ settings' = Some(from_env(env))
    /\ last_update_id' = None
    /\ params' = Params(None)
    /\ error' = NoError
    /\ pc' = "get"
    /\ UNCHANGED <<mode, state_file, env>>

\* run_poll_once up to its first request: the settings are loaded, the
\* cursor is read from the state file and poll_once calls
\* fetch_new_messages with it.  A run may follow an earlier one, finished
\* or failed, on the same state file.
RunPollOnce ==
    /\ mode = "once"
    /\ pc \in {"start", "done", "raised"}
    /\ runs < MaxRuns
    /\ ProcessStarted
    /\ LET loaded == from_env(env)
           read == read_last_update_id(state_file)
       IN  /\ settings' = Some(loaded)
           /\ IF loaded.raised # ""
              THEN /\ Raise(loaded.raised, loaded.message)
                   /\ last_update_id' = None
              ELSE IF read.raised # ""
              THEN /\ Raise(read.raised, "read_last_update_id")
                   /\ last_update_id' = None
              ELSE /\ last_update_id' = read.value
                   /\ error' = NoError
                   /\ pc' = "get"
           /\ params' = Params(last_update_id')
    /\ UNCHANGED <<mode, state_file, env>>

\* mutant: the loop starts from the cursor of the state file.
RunPollLoopLoaded ==
    /\ mode = "loop"
    /\ pc = "start"
    /\ ProcessStarted
    /\ settings' = Some(from_env(env))
    /\ last_update_id' = read_last_update_id(state_file).value
    /\ params' = Params(last_update_id')
    /\ error' = NoError
    /\ pc' = "get"
    /\ UNCHANGED <<mode, state_file, env>>

\* run_poll_loop up to its first request: the settings are loaded and
\* poll_loop starts with last_update_id = None.
RunPollLoop ==
    /\ mode = "loop"
    /\ pc = "start"
    /\ ProcessStarted
    /\ LET loaded == from_env(env)
       IN  /\ settings' = Some(loaded)
           /\ last_update_id' = None
           /\ params' = Params(None)
           /\ IF loaded.raised # ""
              THEN Raise(loaded.raised, loaded.message)
              ELSE /\ error' = NoError
                   /\ pc' = "get"
    /\ UNCHANGED <<mode, state_file, env>>

\* mutant: the cursor written is the update_id of the last message fetched.
PollOnceReturnedLastMessage ==
    /\ pc' = "done"
    /\ state_file' = IF messages # <<>>
                     THEN write_last_update_id(state_file,
                                               messages[Len(messages)].update_id)
                     ELSE state_file

\* mutant: the state file is written whatever poll_once returned, 0 for None.
PollOnceReturnedAlways ==
    /\ pc' = "done"
    /\ state_file' = write_last_update_id(state_file, OrInt(new_last_update, 0))

\* run_poll_once after poll_once returned new_last_update:
\*     if new_last_update is not None: write_last_update_id(...)
PollOnceReturned ==
    /\ pc' = "done"
    /\ state_file' = IF new_last_update # None
                     THEN write_last_update_id(state_file, new_last_update[1])
                     ELSE state_file

\* poll_once after fetch_new_messages returned: without messages it returns
\* at once, otherwise the batch goes to _process_messages.
OnceReceive ==
    /\ mode = "once"
    /\ pc = "returned"
    /\ IF messages = <<>>
       THEN /\ PollOnceReturned
            /\ batch' = <<>>
       ELSE /\ pc' = "transform"
            /\ batch' = OnceBatch(messages)
            /\ UNCHANGED state_file
    /\ processed' = 0
    /\ CallLeft
    /\ UNCHANGED <<mode, params, first_cycle, runs, configVars, last_update_id,
                   previous_last_update_id, resultVars, error, published>>

\* mutant: the cursor is taken over only together with messages.
LoopReceiveKept ==
    /\ mode = "loop"
    /\ pc = "returned"
    /\ last_update_id' = IF messages # <<>> THEN new_last_update ELSE last_update_id
    /\ IF messages # <<>>
       THEN /\ pc' = "transform"
            /\ batch' = LoopBatch(previous_last_update_id, messages)
       ELSE /\ pc' = "sleep"
            /\ batch' = <<>>
    /\ processed' = 0
    /\ CallLeft
    /\ UNCHANGED <<mode, frameVars, previous_last_update_id,
                   resultVars, error, published>>

\* poll_loop after fetch_new_messages returned: the cursor is replaced by
\* the new one, the batch goes to _process_messages or the loop sleeps.
LoopReceive ==
    /\ mode = "loop"
    /\ pc = "returned"
    /\ last_update_id' = new_last_update
    /\ IF messages # <<>>
       THEN /\ pc' = "transform"
            /\ batch' = LoopBatch(previous_last_update_id, messages)
       ELSE /\ pc' = "sleep"
            /\ batch' = <<>>
    /\ processed' = 0
    /\ CallLeft
    /\ UNCHANGED <<mode, frameVars, previous_last_update_id,
                   resultVars, error, published>>

\* what neither adapt_post nor publish_post changes.
processFrame ==
    <<mode, params, first_cycle, runs, configVars, last_update_id, previous_last_update_id,
      webhook_conflict_handled, get_requests, delete_calls, delete_requests,
      resultVars, batch>>

\* mutant: the prepared text is put aside and the next message is adapted
\* before anything is published.
TransformOkUnpublished ==
    /\ pc = "transform"
    /\ processed + 1 < Len(batch)
    /\ processed' = processed + 1
    /\ attempt' = 1
    /\ trace' = <<>>
    /\ UNCHANGED <<processFrame, state_file, pc, error, published>>

\* adapt_post: the request answered 200 with a text in it; publish_post is
\* called with the prepared text.
TransformOk ==
    /\ pc = "transform"
    /\ attempt' = 1
    /\ trace' = <<>>
    /\ pc' = "publish"
    /\ UNCHANGED <<processFrame, state_file, error, processed, published>>

\* mutant: _extract_text runs inside the retry loop, so an answer without a
\* text is asked for again.
TransformUnrecognisedRetried ==
    /\ pc = "transform"
    /\ attempt < MaxAttempts
    /\ Answered("adapt", "no_text")
    /\ attempt' = attempt + 1
    /\ UNCHANGED <<processFrame, state_file, pc, error, processed, published>>

\* adapt_post: the request answered 200 without a text that _extract_text
\* recognises.
TransformUnrecognised ==
    /\ pc = "transform"
    /\ Answered("adapt", "no_text")
    /\ Raise("DeepSeekClientError", "adapt_post: no text")
    /\ UNCHANGED <<processFrame, state_file, attempt, processed, published>>

\* adapt_post: the request answered 200 with a body that is no JSON.
TransformUndecodable ==
    /\ pc = "transform"
    /\ Answered("adapt", "no_json")
    /\ Raise("JSONDecodeError", "adapt_post: response.json()")
    /\ UNCHANGED <<processFrame, state_file, attempt, processed, published>>

\* adapt_post: the request raised httpx.HTTPError before the last attempt.
TransformRetried ==
    /\ pc = "transform"
    /\ attempt < MaxAttempts
    /\ Answered("adapt", "error")
    /\ attempt' = attempt + 1
    /\ UNCHANGED <<processFrame, state_file, pc, error, processed, published>>

\* adapt_post: the last attempt raised httpx.HTTPError.
TransformExhausted ==
    /\ pc = "transform"
    /\ attempt = MaxAttempts
    /\ Answered("adapt", "error")
    /\ Raise("DeepSeekClientError", "adapt_post: failed")
    /\ UNCHANGED <<processFrame, state_file, attempt, processed, published>>

\* mutant: the cursor of the failed cycle is written all the same.
PublishExhaustedPersisted ==
    /\ pc = "publish"
    /\ attempt = MaxAttempts
    /\ \E answer \in {"timeout", "error"} : Answered("sendMessage", answer)
    /\ Raise("TelegramClientError", "sendMessage: failed")
    /\ state_file' = IF mode = "once" /\ new_last_update # None
                     THEN write_last_update_id(state_file, new_last_update[1])
                     ELSE state_file
    /\ UNCHANGED <<processFrame, attempt, processed, published>>

\* mutant: the loop goes on with the next message.
PublishNotOkSkipped ==
    /\ pc = "publish"
    /\ processed + 1 < Len(batch)
    /\ Answered("sendMessage", "not_ok")
    /\ processed' = processed + 1
    /\ attempt' = 1
    /\ pc' = "transform"
    /\ UNCHANGED <<processFrame, state_file, error, published>>

\* publish_post: the request answered 200 with "ok" true.  The message is
\* out; _process_messages goes on with the next one, or the cycle ends:
\* poll_loop sleeps, poll_once returns and run_poll_once writes the cursor.
PublishOk ==
    /\ pc = "publish"
    /\ published' = Append(published, batch[processed + 1])
    /\ processed' = processed + 1
    /\ attempt' = 1
    /\ trace' = <<>>
    /\ IF processed + 1 < Len(batch)
       THEN pc' = "transform" /\ UNCHANGED state_file
       ELSE IF mode = "once"
       THEN PollOnceReturned
       ELSE pc' = "sleep" /\ UNCHANGED state_file
    /\ UNCHANGED <<processFrame, error>>

\* publish_post: the request answered 200 with "ok" false or missing.
PublishNotOk ==
    /\ pc = "publish"
    /\ Answered("sendMessage", "not_ok")
    /\ Raise("TelegramClientError", "sendMessage: not ok")
    /\ UNCHANGED <<processFrame, state_file, attempt, processed, published>>

\* publish_post: the request answered 200 with a body that is no JSON.
PublishUndecodable ==
    /\ pc = "publish"
    /\ Answered("sendMessage", "no_json")
    /\ Raise("JSONDecodeError", "sendMessage: response.json()")
    /\ UNCHANGED <<processFrame, state_file, attempt, processed, published>>

\* publish_post: the request raised httpx.HTTPError before the last
\* attempt, an error status or a transport error, a timeout after the
\* request went out among them: tenacity sends it again.
PublishRetried ==
    /\ pc = "publish"
    /\ attempt < MaxAttempts
    /\ \E answer \in {"timeout", "error"} : Answered("sendMessage", answer)
    /\ attempt' = attempt + 1
    /\ UNCHANGED <<processFrame, state_file, pc, error, processed, published>>

\* publish_post: the last attempt raised httpx.HTTPError.
PublishExhausted ==
    /\ pc = "publish"
    /\ attempt = MaxAttempts
    /\ \E answer \in {"timeout", "error"} : Answered("sendMessage", answer)
    /\ Raise("TelegramClientError", "sendMessage: failed")
    /\ UNCHANGED <<processFrame, state_file, attempt, processed, published>>

\* poll_loop: asyncio.sleep(interval) is over, the next iteration saves the
\* cursor and calls fetch_new_messages again.
LoopSleep ==
    /\ mode = "loop"
    /\ pc = "sleep"
    /\ previous_last_update_id' = last_update_id
    /\ UNCHANGED callVars
    /\ updates' = <<>>
    /\ messages' = <<>>
    /\ new_last_update' = None
    /\ batch' = <<>>
    /\ processed' = 0
    /\ published' = <<>>
    /\ params' = Params(last_update_id)
    /\ first_cycle' = FALSE
    /\ pc' = "get"
    /\ UNCHANGED <<mode, storeVars, configVars, last_update_id, error>>

\* the cursor the current cycle started with.
CycleCursor == IF mode = "loop" THEN previous_last_update_id ELSE last_update_id

\* the state files the first run finds: none, an empty one, one written by
\* an earlier run (any cursor below MaxServerId), an object whose
\* last_update_id is a string, and a JSON list.
RunFiles ==
    {NoFile, Some(<<>>), Some(FileText("field", <<"S">>)),
     Some(FileText("list", <<"7">>))}
    \cup {write_last_update_id(NoFile, n) : n \in 0..(MaxServerId - 1)}

\* a process about to start, in either mode, on any of the state files.
Init ==
    /\ mode \in {"once", "loop"}
    /\ pc = "start"
    /\ state_file \in RunFiles
    /\ runs = 0
    /\ env = BaseEnv
    /\ settings = None
    /\ first_cycle = TRUE
    /\ params = Params(None)
    /\ last_update_id = None
    /\ previous_last_update_id = None
    /\ FetchEntered
    /\ error = NoError
    /\ batch = <<>>
    /\ processed = 0
    /\ published = <<>>

Next ==
    \/ RunPollOnce
    \/ RunPollLoop
    \/ GetUpdatesOk(ServerResponses(RequestedOffset(params)))
    \/ FetchTrouble
    \/ OnceReceive
    \/ LoopReceive
    \/ TransformOk
    \/ TransformUnrecognised
    \/ TransformUndecodable
    \/ TransformRetried
    \/ TransformExhausted
    \/ PublishOk
    \/ PublishNotOk
    \/ PublishUndecodable
    \/ PublishRetried
    \/ PublishExhausted
    \/ LoopSleep

Spec == Init /\ [][Next]_vars

(***************************************************************************)
(* SpecLoop: run_poll_loop against remote sides that answer every request  *)
(* with success, every awaited request and every sleep coming to an end.   *)
(***************************************************************************)

InitLoop == Init /\ mode = "loop"

NextLoop ==
    \/ RunPollLoop
    \/ GetUpdatesOk(ServerResponses(RequestedOffset(params)))
    \/ LoopReceive
    \/ TransformOk
    \/ PublishOk
    \/ LoopSleep

SpecLoop == InitLoop /\ [][NextLoop]_vars /\ WF_vars(NextLoop)

(***************************************************************************)
(* SpecStore: the cursor store on its own, any integer up to MaxStoredInt  *)
(* written to and read from any of StoreFiles.                             *)
(***************************************************************************)

storeFrame ==
    <<mode, params, first_cycle, runs, configVars, previous_last_update_id, callVars, updates,
      messages, pipelineVars>>

\* write_last_update_id(state_file, n).
StoreWrite ==
    /\ pc = "start"
    /\ \E n \in (0 - MaxStoredInt)..MaxStoredInt :
         /\ state_file' = write_last_update_id(state_file, n)
         /\ new_last_update' = Some(n)
    /\ pc' = "written"
    /\ UNCHANGED <<storeFrame, last_update_id, error>>

\* read_last_update_id(state_file).
StoreRead ==
    /\ pc \in {"start", "written"}
    /\ LET read == read_last_update_id(state_file)
       IN  /\ last_update_id' = read.value
           /\ IF read.raised # ""
              THEN Raise(read.raised, "read_last_update_id")
              ELSE pc' = "read" /\ UNCHANGED error
    /\ UNCHANGED <<storeFrame, state_file, new_last_update>>

InitStore ==
    /\ mode = "store"
    /\ pc = "start"
    /\ state_file \in StoreFiles
    /\ runs = 0
    /\ env = BaseEnv
    /\ settings = None
    /\ first_cycle = TRUE
    /\ params = Params(None)
    /\ last_update_id = None
    /\ previous_last_update_id = None
    /\ FetchEntered
    /\ error = NoError
    /\ batch = <<>>
    /\ processed = 0
    /\ published = <<>>

NextStore ==
    \/ StoreWrite
    \/ StoreRead

SpecStore == InitStore /\ [][NextStore]_vars

(***************************************************************************)
(* SpecSettings: Settings.from_env on its own, for every environment of    *)
(* Envs.                                                                   *)
(***************************************************************************)

\* settings = Settings.from_env(), first thing in run_poll_once and
\* run_poll_loop.
LoadSettings ==
    /\ pc = "start"
    /\ LET loaded == from_env(env)
       IN  /\ settings' = Some(loaded)
           /\ IF loaded.raised # ""
              THEN Raise(loaded.raised, loaded.message)
              ELSE pc' = "loaded" /\ UNCHANGED error
    /\ UNCHANGED <<mode, params, first_cycle, storeVars, env, last_update_id, previous_last_update_id,
                   fetchVars, pipelineVars>>

InitSettings ==
    /\ mode = "settings"
    /\ pc = "start"
    /\ state_file = NoFile
    /\ runs = 0
    /\ env \in Envs
    /\ settings = None
    /\ first_cycle = TRUE
    /\ params = Params(None)
    /\ last_update_id = None
    /\ previous_last_update_id = None
    /\ FetchEntered
    /\ error = NoError
    /\ batch = <<>>
    /\ processed = 0
    /\ published = <<>>

NextSettings == LoadSettings

SpecSettings == InitSettings /\ [][NextSettings]_vars

(***************************************************************************)
(* The claims.                                                             *)
(***************************************************************************)

\* fetch_new_messages has returned (and its results are still in place).
Returned == pc = "returned"

\* the i-th update of the response is among the returned messages (the
\* i-th update of a response of SpecParse and SpecFetch carries message_id
\* 100 + i).
Appears(i) == \E k \in 1..Len(messages) : messages[k].message_id = 100 + i

MaxOfSet(S) == CHOOSE m \in S : \A x \in S : x <= m

\* C1: the cursor fetch returns is at least the cursor it was called with,
\* and is that very cursor (absent included) when no update was returned.
C1_CursorNeverDecreases ==
    Returned =>
        /\ last_update_id # None =>
             /\ new_last_update # None
             /\ new_last_update[1] >= last_update_id[1]
        /\ updates = <<>> => new_last_update = last_update_id

\* C1's case: a fetch called with the largest cursor got two updates, the
\* last one with a smaller update_id, and returned the cursor unchanged.
C1_Witness ==
    /\ Returned
    /\ last_update_id = Some(MaxUpdateId)
    /\ Len(updates) = 2
    /\ UpdateIdOf(updates[2]) < MaxUpdateId
    /\ new_last_update = last_update_id

\* the sender identity of an update as the claims describe it: the first of
\* sender_chat id, from id and chat id that is present and parses as an
\* integer; None when there is none.
ClaimedSender(update) ==
    LET block == MessageBlock(update)
        candidates == <<block.sender_chat, block.from, block.chat>>
        parsing == { j \in 1..3 : candidates[j].t # "none"
                                  /\ ToInt(candidates[j]) # None }
    IN  IF parsing = {} THEN None
        ELSE ToInt(candidates[CHOOSE j \in parsing : \A l \in parsing : j <= l])

\* the text of an update as C8 words it: the text, the caption only when
\* the text is absent.
ClaimedText(update) ==
    LET block == MessageBlock(update)
    IN  IF block.text # None THEN block.text ELSE block.caption

\* the text of an update as the code takes it: the text, the caption when
\* the text is absent or empty.
EffectiveText(update) ==
    LET block == MessageBlock(update)
    IN  IF block.text # None /\ block.text[1] # <<>> THEN block.text
        ELSE block.caption

\* empty or whitespace-only (or absent).
Blank(text) == text = None \/ \A j \in 1..Len(text[1]) : text[1][j] = " "

\* non-empty, with no whitespace at either end.
Trimmed(str) == str # <<>> /\ str[1] # " " /\ str[Len(str)] # " "

\* C7: an update whose sender identity is not the configured source never
\* appears in the returned messages, whatever its text.
C7_ForeignSenderDropped ==
    Returned =>
        \A i \in 1..Len(updates) :
            ClaimedSender(updates[i]) # Some(SourceUserId) => ~Appears(i)

\* C7's case: a post of another sender with a good text came with a post of
\* the source, and only the latter was returned.
C7_Witness ==
    /\ Returned
    /\ Len(updates) = 2
    /\ ClaimedSender(updates[1]) = Some(OtherUserId)
    /\ ~Blank(ClaimedText(updates[1]))
    /\ ClaimedSender(updates[2]) = Some(SourceUserId)
    /\ ~Appears(1)
    /\ Appears(2)

\* C8 as stated: an update whose text (the caption when the text is absent)
\* is empty or whitespace-only never appears in the returned messages, and
\* every returned message has a non-empty trimmed text.
C8_BlankTextDropped_AsStated ==
    Returned =>
        /\ \A i \in 1..Len(updates) :
               Blank(ClaimedText(updates[i])) => ~Appears(i)
        /\ \A k \in 1..Len(messages) : Trimmed(messages[k].text)

\* C8 amended: an update whose text (the caption when the text is absent or
\* empty) is absent, empty or whitespace-only never appears in the returned
\* messages, and every returned message has a non-empty trimmed text.
C8_BlankTextDropped ==
    Returned =>
        /\ \A i \in 1..Len(updates) :
               Blank(EffectiveText(updates[i])) => ~Appears(i)
        /\ \A k \in 1..Len(messages) : Trimmed(messages[k].text)

\* C8's case: a post of the source with a whitespace-only text (and a good
\* caption) was dropped, and a post with spaces around its text was
\* returned trimmed.
C8_Witness ==
    /\ Returned
    /\ Len(updates) = 2
    /\ ClaimedSender(updates[1]) = Some(SourceUserId)
    /\ MessageBlock(updates[1]).text = Some(<<" ">>)
    /\ ~Blank(MessageBlock(updates[1]).caption)
    /\ ~Appears(1)
    /\ MessageBlock(updates[2]).text = Some(<<" ", "a", " ">>)
    /\ Appears(2)
    /\ messages[1].text = <<"a">>

\* C9: a channel post whose sender_chat id is the source id written with
\* the "-100" prefix, with a good text, is returned.
C9_PrefixedSenderAccepted ==
    Returned =>
        \A i \in 1..Len(updates) :
            ( /\ updates[i].kind = "channel_post"
              /\ updates[i].body.sender_chat = StrId(ChannelPrefixed(SourceUserId))
              /\ ~Blank(EffectiveText(updates[i])) )
            => Appears(i)

\* C10: the returned cursor is the largest of the cursor passed in (when
\* there is one) and the update_ids of all fetched updates, whether or not
\* they yielded a message.
C10_CursorIsMaximum ==
    Returned =>
        LET ids == { UpdateIdOf(updates[i]) : i \in 1..Len(updates) }
                   \cup (IF last_update_id = None THEN {} ELSE {last_update_id[1]})
        IN  IF ids = {} THEN new_last_update = None
            ELSE new_last_update = Some(MaxOfSet(ids))

\* C10's case: the update with the largest update_id was filtered out, and
\* the cursor moved to it from a smaller one.
C10_Witness ==
    /\ Returned
    /\ last_update_id = Some(1)
    /\ Len(updates) = 2
    /\ Appears(1)
    /\ ~Appears(2)
    /\ UpdateIdOf(updates[1]) < UpdateIdOf(updates[2])
    /\ UpdateIdOf(updates[2]) > 1
    /\ new_last_update = Some(UpdateIdOf(updates[2]))

\* the messages the claims expect for a response: one for each update of
\* the source with a text that is not blank, in the order of the response.
ClaimedMessages(result) ==
    LET relevant(u) == /\ ClaimedSender(u) = Some(SourceUserId)
                       /\ ~Blank(EffectiveText(u))
        kept == SelectSeq(result, relevant)
    IN  [k \in 1..Len(kept) |->
            TelegramMessage(UpdateIdOf(kept[k]), MessageIdOf(MessageBlock(kept[k])),
                            strip(EffectiveText(kept[k])[1]))]

\* the cursor the claims expect: the largest of the cursor passed in and
\* the update_ids of the response.
ClaimedCursor(cursor, result) ==
    LET ids == { UpdateIdOf(result[i]) : i \in 1..Len(result) }
               \cup (IF cursor = None THEN {} ELSE {cursor[1]})
    IN  IF ids = {} THEN None ELSE Some(MaxOfSet(ids))

LastAnswer == trace[Len(trace)]

\* the first round of getUpdates used up its attempts and ended in a 409.
FirstRoundConflict ==
    /\ Len(trace) >= MaxAttempts
    /\ \A j \in 1..MaxAttempts : trace[j][1] = "getUpdates"
    /\ trace[MaxAttempts] = <<"getUpdates", "409">>

\* C4: when the first getUpdates round ends in a 409, the remove-webhook
\* call succeeds and the getUpdates round after it succeeds, fetch returns
\* the messages of the successful response and the advanced cursor, and
\* _delete_webhook was called exactly once.
C4_RecoversFromConflict ==
    ( /\ FirstRoundConflict
      /\ \E j \in 1..Len(trace) : trace[j] = <<"deleteWebhook", "ok">>
      /\ LastAnswer = <<"getUpdates", "ok">> )
    => /\ Returned
       /\ messages = ClaimedMessages(updates)
       /\ new_last_update = ClaimedCursor(last_update_id, updates)
       /\ delete_calls = 1

\* C4's case: three 409s, one deleteWebhook answered ok, then a getUpdates
\* that brought a message of the source.
C4_Witness ==
    /\ Returned
    /\ Len(trace) = MaxAttempts + 2
    /\ FirstRoundConflict
    /\ trace[MaxAttempts + 1] = <<"deleteWebhook", "ok">>
    /\ LastAnswer = <<"getUpdates", "ok">>
    /\ Len(messages) = 1
    /\ new_last_update # last_update_id
    /\ delete_calls = 1

\* C5: when a getUpdates round ends in a 409 after the recovery was done in
\* the same fetch, fetch fails with TelegramClientError (the webhook
\* conflict is not resolved) and _delete_webhook was called once, not twice.
C5_RepeatedConflictFails ==
    \A j \in 1..Len(trace) :
        ( /\ trace[j] = <<"deleteWebhook", "ok">>
          /\ Len(trace) = j + MaxAttempts
          /\ LastAnswer = <<"getUpdates", "409">> )
        => /\ pc = "raised"
           /\ error = [type |-> "TelegramClientError",
                       message |-> "getUpdates: webhook conflict not resolved"]
           /\ delete_calls = 1

\* C5's case: both rounds ended in a 409, with a successful deleteWebhook
\* between them.
C5_Witness ==
    /\ pc = "raised"
    /\ Len(trace) = 2 * MaxAttempts + 1
    /\ FirstRoundConflict
    /\ trace[MaxAttempts + 1] = <<"deleteWebhook", "ok">>
    /\ LastAnswer = <<"getUpdates", "409">>
    /\ error.type = "TelegramClientError"
    /\ delete_calls = 1

\* C6: whatever the remote side answers, one fetch calls _delete_webhook at
\* most once.
C6_AtMostOneRecovery == delete_calls <= 1

\* C6's case: a fetch that got a 409 again after its recovery (retried by
\* the retry round, not recovered a second time) and then returned.
C6_Witness ==
    /\ Returned
    /\ delete_calls = 1
    /\ webhook_conflict_handled
    /\ \E j \in 1..Len(trace) :
         /\ trace[j] = <<"deleteWebhook", "ok">>
         /\ \E l \in (j + 1)..Len(trace) : trace[l] = <<"getUpdates", "409">>

\* the cycle has its fetch behind it and is processing, or is over.
CycleFetched == pc \in {"transform", "publish", "sleep", "done"}

\* the messages published by the _process_messages call of this cycle.
PublishedThisCycle ==
    SubSeq(published, Len(published) - processed + 1, Len(published))

\* C2: in a cycle that started with a cursor, all messages fetch returned
\* are handed to _process_messages, in fetch order.
C2_WarmCycleProcessesAll ==
    (CycleFetched /\ CycleCursor # None) => batch = messages

\* C3: in a cycle that started without a cursor, the last two of more than
\* two fetched messages, or else all of them, are processed, in fetch order.
C3_ColdCycleProcessesLastTwo ==
    (CycleFetched /\ CycleCursor = None) =>
        /\ batch = IF Len(messages) > 2
                   THEN <<messages[Len(messages) - 1], messages[Len(messages)]>>
                   ELSE messages
        /\ PublishedThisCycle = SubSeq(batch, 1, processed)
        /\ pc \in {"sleep", "done"} => processed = Len(batch)

\* C3's case: a cold cycle fetched three messages and has published the
\* second and the third.
C3_Witness ==
    /\ pc \in {"sleep", "done"}
    /\ CycleCursor = None
    /\ Len(messages) = 3
    /\ published = <<messages[2], messages[3]>>

(***************************************************************************)
(* The claims about the state file and the runs on it.                     *)
(***************************************************************************)

\* the cursor a run would load from the file: None when there is none, or
\* when reading it raises.
StoredCursor(file) == read_last_update_id(file).value

\* C11: whatever step is taken, a state file that holds a cursor holds one
\* at least as large afterwards: no run on it stores a smaller cursor.
C11_StoredCursorNeverDecreases ==
    [][StoredCursor(state_file) # None =>
         /\ StoredCursor(state_file') # None
         /\ StoredCursor(state_file')[1] >= StoredCursor(state_file)[1]]_vars

\* C11's case: the first run stored the cursor MaxServerId (no file starts
\* with it); the second run loaded it, was answered with older updates only,
\* and left it in the file.
C11_Witness ==
    /\ mode = "once"
    /\ runs = 2
    /\ pc = "done"
    /\ last_update_id = Some(MaxServerId)
    /\ updates # <<>>
    /\ \A i \in 1..Len(updates) : UpdateIdOf(updates[i]) < MaxServerId
    /\ StoredCursor(state_file) = Some(MaxServerId)

\* the cycle failed in fetch_new_messages, adapt_post or publish_post.
CycleFailed ==
    pc = "raised" /\ error.type \in {"TelegramClientError", "DeepSeekClientError"}

\* C12: in single-pass mode the state file changes only in the step that
\* ends a cycle in which nothing failed and the whole batch was published,
\* and then to the cursor fetch returned; a step that fails leaves the file
\* as it was, and the run after a failed cycle fetches with the same cursor.
C12_CursorWrittenOnSuccessOnly ==
    [][mode = "once" =>
         /\ state_file' # state_file =>
              /\ pc' = "done"
              /\ error' = NoError
              /\ processed' = Len(batch')
              /\ new_last_update' # None
              /\ state_file' = write_last_update_id(state_file, new_last_update'[1])
         /\ pc' = "raised" => state_file' = state_file
         /\ (CycleFailed /\ pc' = "get") => last_update_id' = last_update_id]_vars

\* C12's case: publish_post failed on the second message of a cycle whose
\* fetch had returned a new cursor, and the file still holds the old one.
C12_Witness ==
    /\ mode = "once"
    /\ CycleFailed
    /\ error.message = "sendMessage: failed"
    /\ processed = 1
    /\ last_update_id # None
    /\ new_last_update # last_update_id
    /\ StoredCursor(state_file) = last_update_id

C14_RoundTrip ==
    (mode = "store" /\ new_last_update # None /\ pc \in {"read", "raised"}) =>
        /\ pc = "read"
        /\ last_update_id = new_last_update

\* C14's case: a negative number of two digits was written and read back.
C14_Witness ==
    /\ mode = "store"
    /\ pc = "read"
    /\ new_last_update = Some(0 - MaxStoredInt)
    /\ last_update_id = Some(0 - MaxStoredInt)
    /\ state_file = Some(<<"{", "K", ":", " ", "-">> \o Digits(MaxStoredInt) \o <<"}">>)

\* the file holds a JSON object whose last_update_id is an integer.
HoldsIntegerCursor(file) ==
    /\ file # NoFile
    /\ JsonLoads(file[1]).kind = "dict"
    /\ JsonLoads(file[1]).field.kind = "int"

\* C15: read_last_update_id returns for every state of the file, and what
\* it returns is an integer only for a file holding a JSON object whose
\* last_update_id is an integer, and absent otherwise.
C15_ReadNeverRaises ==
    (mode = "store" /\ pc \in {"read", "raised"}) =>
        /\ pc = "read"
        /\ last_update_id # None <=> HoldsIntegerCursor(state_file)

(***************************************************************************)
(* The claims about _process_messages and the two client calls in it.      *)
(***************************************************************************)

\* adapt_post or publish_post raised for the message in turn, batch[processed + 1].
ProcessingFailed ==
    /\ pc = "raised"
    /\ error.message \in {"adapt_post: no text", "adapt_post: failed",
                          "sendMessage: not ok", "sendMessage: failed"}

\* C16: when adapt_post or publish_post fails on the k-th message of the
\* batch, exactly the k-1 messages before it have been published, once each
\* and in order, and no step of the cycle follows: the only thing that can
\* come next is a new single-pass run, and nothing at all in the loop.
C16_FailureAbortsCycle ==
    /\ [](ProcessingFailed =>
            /\ processed < Len(batch)
            /\ published = SubSeq(batch, 1, processed))
    /\ [][ProcessingFailed => (mode = "once" /\ runs' = runs + 1)]_vars

\* C16's case: a loop cycle with three messages failed on the second one.
C16_Witness ==
    /\ mode = "loop"
    /\ ProcessingFailed
    /\ Len(batch) = 3
    /\ processed = 1
    /\ published = <<batch[1]>>

\* C17: within a publish_post call, no sendMessage request follows one that
\* timed out after it was sent.
C17_NoBlindResend ==
    \A j \in 1..Len(trace) :
        trace[j] = <<"sendMessage", "timeout">> =>
            \A l \in (j + 1)..Len(trace) : trace[l][1] # "sendMessage"

(***************************************************************************)
(* The claims about continuous mode and the state file.                    *)
(***************************************************************************)

\* C18: in continuous mode no step changes the state file, and the first
\* fetch is entered without a cursor, whatever the file holds.
C18_LoopLeavesStoreAlone ==
    [][mode = "loop" =>
         /\ state_file' = state_file
         /\ (pc = "start" /\ pc' = "get") => last_update_id' = None]_vars

\* C18's case: the state file holds cursor 1; the first cycle of the loop
\* was fetched without a cursor, took the in-memory cursor to MaxServerId
\* and left the file as it was.
C18_Witness ==
    /\ mode = "loop"
    /\ pc = "sleep"
    /\ previous_last_update_id = None
    /\ last_update_id = Some(MaxServerId)
    /\ UpdateIdOf(updates[1]) = 1
    /\ state_file = Some(JsonDumps(1))

(***************************************************************************)
(* The claims about Settings.from_env (SpecSettings).                      *)
(***************************************************************************)

\* the variable is set to something other than the empty string.
NonEmpty(name) == env[name] # None /\ env[name] # Some(<<>>)

\* the value of the new name when it is non-empty, else that of the legacy
\* name (None when that one is not set).
Preferred(new, legacy) == IF NonEmpty(new) THEN env[new] ELSE env[legacy]

\* the integer the preferred source user id value stands for, None when it
\* is no integer.
PreferredSourceUserId ==
    LET value == Preferred("TG_ISTO4NIK_ID", "TGUSERID")
    IN  IF value = None THEN None ELSE ParseInt(value[1])

\* from_env has returned or raised.
SettingsLoaded == mode = "settings" /\ pc \in {"loaded", "raised"}

\* C19: the Settings from_env returns hold, for the target channel and for
\* the source user id, the value of the new name when that is non-empty and
\* the value of the legacy name only when the new one is unset or empty.
C19_FirstNonEmptyNameWins ==
    (mode = "settings" /\ pc = "loaded") =>
        LET loaded == settings[1].value[1]
        IN  /\ Some(loaded.telegram_target_channel) =
                 Preferred("TELEGRAMKANAL_ID_S_MINYSOM_V_NA4ALE", "TELEGRAMKANAL")
            /\ Some(loaded.telegram_source_user_id) = PreferredSourceUserId

\* C19's case: the new channel name is set but empty, so the legacy one is
\* taken; both source user id names are set, and the new one is taken.
C19_Witness ==
    /\ mode = "settings"
    /\ pc = "loaded"
    /\ env["TELEGRAMKANAL_ID_S_MINYSOM_V_NA4ALE"] = Some(<<>>)
    /\ settings[1].value[1].telegram_target_channel = <<"@", "l">>
    /\ env["TGUSERID"] = Some(<<"7", "8", "9">>)
    /\ settings[1].value[1].telegram_source_user_id = 456

\* no accepted name of the setting has a non-empty value.
Unresolved(r) == \A i \in 1..Len(r.names) : ~NonEmpty(r.names[i])

UnresolvedSettings == { r \in {Required[j] : j \in 1..Len(Required)} : Unresolved(r) }

\* from_env raised SettingsError.
SettingsFailed == pc = "raised" /\ error.type = "SettingsError"

\* the message lists the names of every unresolved setting, and no Settings
\* came out.
ListsEveryUnresolved ==
    /\ {settings[1].listed[i].names : i \in 1..Len(settings[1].listed)}
         = {r.names : r \in UnresolvedSettings}
    /\ settings[1].value = None

\* C20 as stated: from_env fails exactly when some setting is unresolved,
\* and then lists every unresolved setting and returns no Settings.
C20_FailsExactlyWhenUnresolved_AsStated ==
    SettingsLoaded =>
        /\ SettingsFailed <=> UnresolvedSettings # {}
        /\ SettingsFailed => ListsEveryUnresolved

\* C20: from_env fails with SettingsError exactly when some setting is
\* unresolved or the value resolved for the source user id is no integer;
\* with unresolved settings the message lists the names of every one of
\* them, and a failing from_env returns no Settings.
C20_FailsExactlyWhenUnresolvedOrNoInteger ==
    SettingsLoaded =>
        /\ SettingsFailed <=>
             \/ UnresolvedSettings # {}
             \/ PreferredSourceUserId = None
        /\ pc = "raised" => SettingsFailed /\ settings[1].value = None
        /\ UnresolvedSettings # {} => ListsEveryUnresolved

\* C20's case: the transform credential and both channel names are missing
\* or empty, and the message lists both settings.
C20_Witness ==
    /\ mode = "settings"
    /\ SettingsFailed
    /\ Len(settings[1].listed) = 2
    /\ settings[1].listed[1].names = <<"DEEPSEEK_APPI">>
    /\ settings[1].listed[2].names = <<"TELEGRAMKANAL_ID_S_MINYSOM_V_NA4ALE", "TELEGRAMKANAL">>
    /\ env["TELEGRAMKANAL"] = Some(<<>>)

(***************************************************************************)
(* The claims about the sender identity and the request parameters.        *)
(***************************************************************************)

\* C21: fetch returns, and an update is among its messages exactly when the
\* first of sender_chat id, from id and chat id that is present and parses
\* as an integer is the source user id (and its text is accepted); an
\* update none of whose candidates parses is not among them.
C21_FirstParsingSenderDecides ==
    Returned =>
         \A i \in 1..Len(updates) :
            /\ Appears(i) <=>
                 /\ ClaimedSender(updates[i]) = Some(SourceUserId)
                 /\ TextAccepted(TextOf(MessageBlock(updates[i])))
            /\ ClaimedSender(updates[i]) = None => ~Appears(i)

\* C21's case: the first update has a sender_chat id that is no number and
\* the source as from id, and is returned; the second has only a from id
\* that is no number, and is dropped.
C21_Witness ==
    /\ Returned
    /\ Len(updates) = 2
    /\ updates[1].body.sender_chat = StrId(<<"x">>)
    /\ updates[1].body.from = IntId(SourceUserId)
    /\ Appears(1)
    /\ updates[2].body.sender_chat = NoId
    /\ updates[2].body.from = StrId(<<"x">>)
    /\ ~Appears(2)
    /\ Len(messages) = 1

RecoveryAttemptedBefore(i) ==
    \E j \in 1..(i - 1) : trace[j][1] = "deleteWebhook"

\* C23: during one fetch, a getUpdates request answered 409 while no
\* deleteWebhook request was sent yet is never followed by another
\* getUpdates request: the next request of the call is deleteWebhook.
C23_ConflictRecoveredAtOnce ==
    mode = "fetch" =>
        \A i \in 1..(Len(trace) - 1) :
            (trace[i] = <<"getUpdates", "409">> /\ ~RecoveryAttemptedBefore(i))
                => trace[i + 1][1] = "deleteWebhook"

(***************************************************************************)
(* The claims about the cycles of a run.                                   *)
(***************************************************************************)

\* C24: in continuous mode a cycle after the first one of the run hands
\* every fetched message to _process_messages: only the first cycle may cut
\* the batch down to its last two messages.
C24_OnlyFirstCycleTruncates ==
    (mode = "loop" /\ ~first_cycle /\ pc \in {"transform", "publish", "sleep"})
        => batch = messages

\* the answers with a successful HTTP status that fail the validation of the
\* application: "ok" false or missing (getUpdates, sendMessage,
\* deleteWebhook), no recognised text (adapt).
Invalid == {"not_ok", "no_text"}

\* C25: an answer with a successful HTTP status that fails the validation
\* is the last request of its call, and of the cycle: the call has raised,
\* whatever is left of the attempt budget.
C25_InvalidAnswerFailsAtOnce ==
    \A i \in 1..Len(trace) :
        trace[i][2] \in Invalid =>
            /\ i = Len(trace)
            /\ pc = "raised"
            /\ error.type = IF trace[i][1] = "adapt" THEN "DeepSeekClientError"
                            ELSE "TelegramClientError"

\* C25's case: the first request of adapt_post failed in transport and was
\* sent again, the second was answered without a text: adapt_post has
\* raised with one attempt left.
C25_Witness ==
    /\ trace = <<<<"adapt", "error">>, <<"adapt", "no_text">>>>
    /\ attempt = 2
    /\ attempt < MaxAttempts
    /\ pc = "raised"
    /\ error.type = "DeepSeekClientError"

\* one fetch_new_messages call whose requests are all answered in the end:
\* every await completes or times out.
SpecFetchFair == InitFetch /\ [][NextFetch]_vars /\ WF_vars(NextFetch)

\* the requests one fetch may send: two rounds of getUpdates, one
\* _delete_webhook call.
FetchBounded ==
    /\ get_requests <= 2 * MaxAttempts
    /\ delete_requests <= MaxAttempts

\* the call is over: it has returned a result or raised.
FetchOver == pc \in {"returned", "raised"}

\* C26: every fetch_new_messages call ends, after at most 2 x max_attempts
\* getUpdates and max_attempts deleteWebhook requests, and when it does not
\* return a result it has raised TelegramClientError.
C26_FetchEndsInResultOrClientError ==
    /\ [](mode = "fetch" => FetchBounded)
    /\ <>FetchOver
    /\ [](pc = "raised" => error.type = "TelegramClientError")

\* the call ends within its request budget, whatever the kind of failure.
FetchEndsWithinBudget ==
    /\ [](mode = "fetch" => FetchBounded)
    /\ <>FetchOver

(***************************************************************************)
(* The claims about the order of the steps of a cycle.                     *)
(***************************************************************************)

\* the message _process_messages is working on.
InWork == pc \in {"transform", "publish"}

\* C27: within a cycle one message is in work at a time, the one after the
\* last published; publish_post starts only when adapt_post of the same
\* message has returned, adapt_post of the next message only when
\* publish_post of the one before has returned, and the messages published
\* are the first of the batch, in the order of the fetch.
C27_StrictlySequential ==
    /\ [](mode \in {"once", "loop"} =>
            /\ published = SubSeq(batch, 1, processed)
            /\ InWork => processed < Len(batch)
            /\ \A i, j \in 1..Len(published) :
                 i < j => published[i].message_id < published[j].message_id)
    /\ [][ /\ (pc' = "publish" /\ pc # "publish") =>
                (pc = "transform" /\ processed' = processed)
           /\ (pc' = "transform" /\ pc # "transform") =>
                \/ pc = "returned" /\ processed' = 0 /\ published = <<>>
                \/ /\ pc = "publish"
                   /\ processed' = processed + 1
                   /\ published' = Append(published, batch[processed + 1])
           /\ processed' # processed =>
                \/ pc = "publish" /\ processed' = processed + 1
                \/ processed' = 0
       ]_vars

\* C27's case: a cycle has published both messages of its batch and is
\* adapting the third.
C27_Witness ==
    /\ pc = "transform"
    /\ Len(batch) = 3
    /\ processed = 2
    /\ published = <<batch[1], batch[2]>>
    /\ batch[1].message_id < batch[2].message_id
    /\ batch[2].message_id < batch[3].message_id

\* a cursor is not behind another: None is behind every cursor.
NotBehind(later, earlier) ==
    earlier # None => (later # None /\ later[1] >= earlier[1])

\* C28: in continuous mode the cursor changes only when a fetch has returned,
\* to the cursor that fetch returned, and never goes back; the next fetch is
\* entered from the sleep only, with that cursor and its offset, and the
\* sleep is entered only when the cycle of a returned fetch is over.
C28_LoopCarriesCursor ==
    /\ [](mode = "loop" =>
            /\ pc = "sleep" => last_update_id = new_last_update
            /\ pc \in {"get", "delete"} => params = Params(last_update_id))
    /\ [][ mode = "loop" =>
             /\ last_update_id' # last_update_id =>
                  (pc = "returned" /\ last_update_id' = new_last_update)
             /\ NotBehind(last_update_id', last_update_id)
             /\ (pc' = "get" /\ pc \notin {"get", "delete"}) =>
                  \/ pc = "start"
                  \/ /\ pc = "sleep"
                     /\ last_update_id' = last_update_id
                     /\ previous_last_update_id' = last_update_id
                     /\ params' = Params(last_update_id)
             /\ (pc' = "sleep" /\ pc # "sleep") =>
                  \/ pc = "returned" /\ messages = <<>>
                  \/ pc = "publish" /\ processed' = Len(batch)
             /\ pc = "sleep" => pc' \in {"sleep", "get"}
       ]_vars

\* C28's case: a later iteration of the loop fetches with the cursor
\* MaxServerId - 1 the fetch before it returned and gets the last update.
C28_Witness ==
    /\ mode = "loop"
    /\ ~first_cycle
    /\ pc = "returned"
    /\ previous_last_update_id = Some(MaxServerId - 1)
    /\ last_update_id = Some(MaxServerId - 1)
    /\ RequestedOffset(params) = Some(MaxServerId)
    /\ new_last_update = Some(MaxServerId)

(***************************************************************************)
(* The claims about what a single-pass run leaves behind.                  *)
(***************************************************************************)

\* the update_ids of the updates the fetch of this run returned.
FetchedIds == {UpdateIdOf(updates[i]) : i \in 1..Len(updates)}

\* C29: when a single-pass run has succeeded, the cursor in the state file
\* is at least the update_id of every update it fetched, those of the
\* messages dropped by the truncation included, and the run that follows
\* asks for updates beyond all of them.
C29_DroppedMessagesStayBehind ==
    /\ [](mode = "once" /\ pc = "done" /\ updates # <<>> =>
            /\ StoredCursor(state_file) # None
            /\ \A id \in FetchedIds : StoredCursor(state_file)[1] >= id)
    /\ [][(mode = "once" /\ pc = "done" /\ updates # <<>> /\ pc' = "get") =>
             /\ RequestedOffset(params') # None
             /\ \A id \in FetchedIds : RequestedOffset(params')[1] > id]_vars

\* C29's case: a run fetched three messages, dropped the first and
\* published the last two; the cursor stored is beyond the dropped one, and
\* so is the offset a run reading it will ask for.
C29_Witness ==
    /\ mode = "once"
    /\ pc = "done"
    /\ Len(messages) = 3
    /\ published = LastTwo(messages)
    /\ StoredCursor(state_file) = Some(MaxServerId)
    /\ messages[1].update_id < StoredCursor(state_file)[1]
    /\ Offset(StoredCursor(state_file))[1] > messages[1].update_id

\* C30: in single-pass mode the state file changes only in the step that
\* ends a cycle which returned a cursor; a cycle returns no cursor only on
\* a cold start with no update fetched, and the run then ends with the
\* state file as it found it, missing or not.
C30_NoCursorNoWrite ==
    /\ [](mode = "once" /\ pc = "done" /\ new_last_update = None =>
            /\ last_update_id = None
            /\ updates = <<>>)
    /\ [][mode = "once" =>
            /\ (pc' = "done" /\ pc # "done" /\ new_last_update = None) =>
                 state_file' = state_file
            /\ state_file' # state_file =>
                 /\ pc \in {"returned", "publish"}
                 /\ pc' = "done"
                 /\ new_last_update # None
                 /\ state_file' = Some(JsonDumps(new_last_update[1]))
       ]_vars

\* C30's case: a run that found no state file and fetched no update is
\* over, and there is still no state file.
C30_Witness ==
    /\ mode = "once"
    /\ pc = "done"
    /\ runs = 1
    /\ updates = <<>>
    /\ new_last_update = None
    /\ state_file = NoFile

(***************************************************************************)
(* The claims about the kinds of update and about the loop going on.       *)
(***************************************************************************)

\* the kinds of update the request asks for.
RequestedKinds ==
    {params.allowed_updates[i] : i \in 1..Len(params.allowed_updates)}

\* C31: edited_channel_post is among the kinds every request asks for, yet
\* an update that carries only an edited_channel_post is never among the
\* messages fetch returns, whoever sent it and whatever its text; the cursor
\* returned is at least its update_id all the same.
C31_EditedPostOnlyAdvancesCursor ==
    /\ "edited_channel_post" \in RequestedKinds
    /\ Returned =>
         \A i \in 1..Len(updates) :
            updates[i].kind = "edited_channel_post" =>
                /\ ~Appears(i)
                /\ new_last_update # None
                /\ new_last_update[1] >= UpdateIdOf(updates[i])

\* C31's case: a fetch with the cursor 1 got one update, an
\* edited_channel_post of the source with a good text and update_id 2, and
\* has returned no message and the cursor 2.
C31_Witness ==
    /\ Returned
    /\ last_update_id = Some(1)
    /\ Len(updates) = 1
    /\ updates[1].kind = "edited_channel_post"
    /\ updates[1].body.sender_chat = IntId(SourceUserId)
    /\ TextAccepted(TextOf(updates[1].body))
    /\ UpdateIdOf(updates[1]) = 2
    /\ messages = <<>>
    /\ new_last_update = Some(2)

\* the relevant messages a fetch of the pipeline may return.
RelevantMessages ==
    {TelegramMessage(id, 100 + id, <<"a">>) : id \in 1..MaxServerId}

\* the message is among those the fetch just returned, and the fetch was
\* called with a cursor.
FetchedWithCursor(message) ==
    /\ pc = "returned"
    /\ last_update_id # None
    /\ \E k \in 1..Len(messages) : messages[k] = message

\* the message was published in the cycle going on.
Published(message) == \E k \in 1..Len(published) : published[k] = message

\* C32: in continuous mode with every remote call succeeding, a relevant
\* message returned by a fetch that was called with a cursor is published
\* in the end, and the loop neither raises nor returns: it sleeps and
\* fetches again and again.
C32_LoopPublishesAndGoesOn ==
    /\ \A message \in RelevantMessages :
         FetchedWithCursor(message) ~> Published(message)
    /\ [](pc \notin {"raised", "done"})
    /\ []<>(pc = "sleep")
    /\ []<>(pc = "get")

\* C32's case: a fetch called with the cursor 1 returned three relevant
\* messages, and the cycle has published all three and sleeps.
C32_Witness ==
    /\ mode = "loop"
    /\ pc = "sleep"
    /\ previous_last_update_id = Some(1)
    /\ Len(messages) = 3
    /\ published = messages
    /\ \A k \in 1..3 : messages[k] \in RelevantMessages

====
